---- MODULE Spec2Model ----
(***************************************************************************)
(* Usage & deployment dashboard: the HTTP handlers of the two servers of   *)
(* the repository (server/index.js and its rate-limited successor) over    *)
(* the three tables of the schema (apps, deployments, usage_events).       *)
(*                                                                         *)
(* Time is counted in ticks of 12 hours, so that "interval '24 hours'" is  *)
(* 2 ticks, "interval '1 day'" is 2 ticks and "interval '7 days'" is 14.   *)
(* The rate limiter's 60 second window is far shorter than a tick: its end *)
(* is an action of its own (WindowExpire), and every tick ends it too.     *)
(*                                                                         *)
(* Every step of the model is one request (or one awaited continuation of  *)
(* one) and records what it answered in resp; a step that is no response   *)
(* (a tick, a window expiry, the first half of a two-query handler) writes *)
(* a resp that says so. A state's resp therefore always describes the step *)
(* that led to it.                                                         *)
(***************************************************************************)
EXTENDS Integers, Sequences, FiniteSets, TLC

VARIABLES
    now,            \* wall clock of the database, now(), in ticks
    expected,       \* process.env.DASHBOARD_TOKEN, read on every request
    lastPrune0,     \* now() of the last prune with days = 0 that ran, or N
                    \* (history)
    apps,           \* table apps: a set of rows
    deployments,    \* table deployments: a set of rows
    usage_events,   \* table usage_events: a set of rows
    seq,            \* the bigserial sequences behind the three id columns
    hits,           \* usageLimiter's store: requests counted per key (IP)
    reached,        \* per IP, the requests of the current window that
                    \* usageLimiter passed on to requireToken (history)
    pending,        \* handlers suspended at their second await
    resp            \* what the last step answered

vars == <<now, expected, lastPrune0, apps, deployments, usage_events, seq, hits, reached,
          pending, resp>>

tables == <<apps, deployments, usage_events>>

-----------------------------------------------------------------------------
(* Bounds of the model.                                                    *)

MaxRows == 3        \* values drawn from the three id sequences together
MaxPending == 1     \* handlers suspended between their two queries
MaxHits == 102      \* requests counted per IP within one window
MaxOther == 1       \* requests of the second IP within one window
MaxNow == 3         \* the clock stops here
MaxNowApps == 1     \* ... and here while only the registry is exercised
MaxNowWeek == 15    \* ... and here where the 7 day window is exercised

-----------------------------------------------------------------------------
(* JSON and SQL values. Text fields are strings, with one string for the   *)
(* JavaScript undefined (a field the body does not give) and one for       *)
(* null (JSON null, SQL NULL). Numeric fields are tagged records.          *)

Absent == "<undefined>"
NULL == "<null>"

U == [t |-> "undefined"]
N == [t |-> "null"]
Num(v) == [t |-> "num", v |-> v]
Str(s) == [t |-> "str", s |-> s]

\* JavaScript truthiness of a text field: !v
Falsy(v) == v \in {Absent, NULL, ""}
\* v || null
OrNull(v) == IF Falsy(v) THEN NULL ELSE v
\* JavaScript truthiness of a numeric field
FalsyNum(v) == v \in {U, N, Num(0), Str("")}
NumOrNull(v) == IF FalsyNum(v) THEN N ELSE v
\* const { f = d } = body: the default applies to undefined only
Default(v, d) == IF v = Absent THEN d ELSE v

-----------------------------------------------------------------------------
(* Program constants.                                                      *)

Day == 2            \* interval '1 day', in ticks
Hours24 == 2        \* interval '24 hours', in ticks
Days7 == 14         \* interval '7 days', in ticks
usageMax == 100     \* usageLimiter: max
retryAfter == 60    \* usageLimiter: message.retry_after
defaultDays == 90   \* prune: const { days = 90 }

\* date_trunc('day', ts)::date : the calendar day a timestamp falls in
date_trunc_day(ts) == ts \div Day

-----------------------------------------------------------------------------
(* The schema: the columns of each table, and the columns declared         *)
(* not null.                                                               *)

Columns(t) ==
    CASE t = "apps" ->
           {"id", "slug", "name", "repo_url", "public_url", "created_at"}
      [] t = "deployments" ->
           {"id", "app_id", "environment", "version", "note", "deployed_by",
            "deployed_at"}
      [] t = "usage_events" ->
           {"id", "app_id", "ts", "kind", "method", "path", "status", "ip",
            "user_agent"}

\* An insert names columns: the statement is rejected when one of them is
\* no column of the table.
InsertCompiles(t, cols) == cols \subseteq Columns(t)

\* A select names columns of a table in the same way.
SelectCompiles(t, cols) == cols \subseteq Columns(t)

\* ip inet: the texts the column type accepts
InetOK(v) == v \in {NULL, "10.0.0.1", "10.0.0.2"}
\* status int
IntOK(v) == v.t \in {"null", "num"}

-----------------------------------------------------------------------------
(* Requests. A request is a record: ip (req.ip), hdr (the Authorization    *)
(* header, a sequence of lexical pieces, <<>> when the header is missing), *)
(* b (the JSON body).                                                      *)

NoHeader == <<"<undefined>">>
Lower(w) == IF w \in {"Bearer", "bearer", "BEARER"} THEN "bearer" ELSE w

RECURSIVE SkipSpaces(_)
SkipSpaces(h) ==
    IF h # <<>> /\ Head(h) = " " THEN SkipSpaces(Tail(h)) ELSE h

\* req.get("authorization")?.replace(/^Bearer\s+/i, "")
Got(hdr) ==
    IF hdr = NoHeader THEN NoHeader
    ELSE IF Len(hdr) >= 2 /\ Lower(hdr[1]) = "bearer" /\ hdr[2] = " "
         THEN SkipSpaces(Tail(hdr))
         ELSE hdr

\* requireToken: "next", or the status and error it answers
requireTokenSkipsCheck(hdr) ==
    IF expected = <<>> THEN "server_not_configured" ELSE "next"

requireToken(hdr) ==
    IF expected = <<>> THEN "server_not_configured"
    ELSE IF Got(hdr) # expected THEN "unauthorized"
    ELSE "next"

AuthStatus(a) == IF a = "server_not_configured" THEN 500 ELSE 401

-----------------------------------------------------------------------------
(* Responses.                                                              *)

Answer(route, req, status, error, body) ==
    [route |-> route, req |-> req, status |-> status, error |-> error,
     json |-> TRUE, failed |-> FALSE, body |-> body]

NoResp == [route |-> "none", req |-> <<>>, status |-> 0, error |-> "none",
           json |-> FALSE, failed |-> FALSE, body |-> <<>>]

\* The handler is suspended at an await: no answer yet.
Awaiting(route, req) ==
    [route |-> route, req |-> req, status |-> 0, error |-> "await",
     json |-> FALSE, failed |-> FALSE, body |-> <<>>]

\* An awaited pool.query rejects inside an async handler that has no
\* try/catch, and the application installs no error middleware. What the
\* caller then sees depends on the Express major version the build
\* installs: Express 4 never learns of the rejection (no response is sent:
\* the socket stays open, or the process dies of the unhandled rejection);
\* Express 5 hands it to its default error handler, which answers 500 with
\* an HTML page.
RejectOutcomes == {"no_response", "default_error_page"}

Rejected(route, req, o) ==
    [route |-> route, req |-> req,
     status |-> IF o = "default_error_page" THEN 500 ELSE 0,
     error |-> "none", json |-> FALSE, failed |-> TRUE, body |-> o]

-----------------------------------------------------------------------------
(* The queries of the handlers, as operators over the tables.              *)

Max(a, b) == IF a >= b THEN a ELSE b
Min(a, b) == IF a <= b THEN a ELSE b

\* select id from apps where slug = $1
SelectAppIdsAnySlug(slug) == {a.id : a \in apps}

SelectAppIds(slug) == {a.id : a \in {x \in apps : x.slug = slug}}

\* insert into apps ... on conflict (slug) do update set name, repo_url,
\* public_url = excluded.* returning * : the row the statement leaves
upsertDoNothing(b, id) ==
    LET old == {a \in apps : a.slug = b.slug} IN
    IF old = {}
    THEN {[id |-> id, slug |-> b.slug, name |-> b.name,
           repo_url |-> OrNull(b.repo_url),
           public_url |-> OrNull(b.public_url), created_at |-> now]}
    ELSE old

upsert(b, id) ==
    LET old == {a \in apps : a.slug = b.slug} IN
    IF old = {}
    THEN {[id |-> id, slug |-> b.slug, name |-> b.name,
           repo_url |-> OrNull(b.repo_url),
           public_url |-> OrNull(b.public_url), created_at |-> now]}
    ELSE {[a EXCEPT !.name = b.name, !.repo_url = OrNull(b.repo_url),
                    !.public_url = OrNull(b.public_url)] : a \in old}

\* with last_deploy as (select distinct on (d.app_id) ... order by
\* d.app_id, d.deployed_at desc): per app_id the first row in that order.
\* Rows of one app that share the greatest deployed_at are in no defined
\* order, so any one of them may be the first.
FirstOfAnyOrder(app_id) == {d \in deployments : d.app_id = app_id}

FirstOfOrder(app_id) ==
    {d \in deployments :
        /\ d.app_id = app_id
        /\ \A e \in deployments :
              e.app_id = app_id => e.deployed_at <= d.deployed_at}

\* The results last_deploy can have: one row for each app_id of deployments
last_deploy ==
    LET ids == {d.app_id : d \in deployments} IN
    {{pick[i] : i \in ids} :
        pick \in {f \in [ids -> deployments] :
                     \A i \in ids : f[i] \in FirstOfOrder(i)}}

\* usage_24h: select app_id, count(*) ... where ts >= now() - interval
\* '24 hours' group by app_id. A group exists only for an app_id with a row.
Recent24h == {e \in usage_events : e.ts >= now - Hours24}

usage_24h ==
    {[app_id |-> i, hits_24h |-> Cardinality({e \in Recent24h : e.app_id = i})]
        : i \in {e.app_id : e \in Recent24h}}

\* coalesce(u.hits_24h, 0) over the left join's rows for one app
hitsNoCoalesce(us) ==
    IF us = {} THEN {N} ELSE {Num(u.hits_24h) : u \in us}

coalesceHits(us) ==
    IF us = {} THEN {Num(0)} ELSE {Num(u.hits_24h) : u \in us}

\* from apps a left join last_deploy ld on ld.app_id = a.id
\*             left join usage_24h u on u.app_id = a.id
OverviewRows(ld) ==
    UNION {
        LET lds == {d \in ld : d.app_id = a.id}
            us == {u \in usage_24h : u.app_id = a.id}
            left == IF lds = {}
                    THEN {[deployed_at |-> N, environment |-> NULL,
                           version |-> NULL, note |-> NULL]}
                    ELSE {[deployed_at |-> Num(d.deployed_at),
                           environment |-> d.environment,
                           version |-> d.version, note |-> d.note] : d \in lds}
        IN {[slug |-> a.slug, name |-> a.name, public_url |-> a.public_url,
             repo_url |-> a.repo_url, deployed_at |-> l.deployed_at,
             environment |-> l.environment, version |-> l.version,
             note |-> l.note, hits_24h |-> h]
               : l \in left, h \in coalesceHits(us)}
        : a \in apps}

\* where ts >= now() - interval '7 days'
InWindow7dExclusive(t) == t > now - Days7

InWindow7d(t) == t >= now - Days7

Recent7d == {e \in usage_events : InWindow7d(e.ts)}

\* select date_trunc('day', ts)::date as date, count(*)::int as total
\* ... group by date_trunc('day', ts)
dailyQ ==
    {[date |-> d,
      total |-> Cardinality({e \in Recent7d : date_trunc_day(e.ts) = d})]
        : d \in {date_trunc_day(e.ts) : e \in Recent7d}}

\* order by <key> desc limit k: the results the statement can have (rows
\* with equal keys are in no defined order)
TopK(rows, k, key(_)) ==
    IF Cardinality(rows) <= k THEN {rows}
    ELSE {S \in SUBSET rows :
            /\ Cardinality(S) = k
            /\ \A r \in S, q \in rows \ S : key(r) >= key(q)}

TotalOf(r) == r.total
TsOf(r) == r.ts
DeployedAtOf(r) == r.deployed_at
HitsOf(r) == r.total_hits

\* select a.name, count(*) from usage_events ue join apps a ... group by
\* a.name
byAppQ ==
    LET joined == {<<e, a>> \in Recent7d \X apps : a.id = e.app_id} IN
    {[app_name |-> n,
      total |-> Cardinality({j \in joined : j[2].name = n})]
        : n \in {j[2].name : j \in joined}}

\* select count(*) from deployments where deployed_at >= now() - 7 days
recentDeploysQ ==
    Cardinality({d \in deployments : d.deployed_at >= now - Days7})

\* deployment history: deployments join apps
deploymentsQ ==
    {[id |-> j[1].id, deployed_at |-> j[1].deployed_at,
      environment |-> j[1].environment, version |-> j[1].version,
      note |-> j[1].note, deployed_by |-> j[1].deployed_by,
      app_name |-> j[2].name, app_slug |-> j[2].slug]
        : j \in {<<d, a>> \in deployments \X apps : a.id = d.app_id}}

IsError(e) == e.status.t = "num" /\ e.status.v >= 400

\* per-route analytics (avg_status is left out: nothing here reads it)
routesQ ==
    LET rows == {e \in Recent7d : e.path # NULL}
        keys == {<<e.path, e.method>> : e \in rows}
    IN {[path |-> k[1], method |-> k[2],
         total_hits |-> Cardinality({e \in rows :
                                       <<e.path, e.method>> = k}),
         errors |-> Cardinality({e \in rows :
                                   <<e.path, e.method>> = k /\ IsError(e)})]
           : k \in keys}

\* error feed: usage_events join apps where status >= 400 and ts within 24h
errorsQ ==
    {[id |-> j[1].id, app_name |-> j[2].name, path |-> j[1].path,
      method |-> j[1].method, status |-> j[1].status, ts |-> j[1].ts,
      ip |-> j[1].ip]
        : j \in {<<e, a>> \in Recent24h \X apps :
                    a.id = e.app_id /\ IsError(e)}}

statsQ ==
    [total_apps |-> Cardinality(apps),
     hits_24h |-> Cardinality(Recent24h),
     errors_24h |-> Cardinality({e \in Recent24h : IsError(e)}),
     deploys_7d |-> recentDeploysQ]

\* delete from usage_events where ts < now() - interval '1 day' * $1
\* The comparison with a NULL interval is NULL: no row qualifies.
PrunedIgnoresDays(days) ==
    IF days.t # "num" THEN {}
    ELSE {e \in usage_events : e.ts < now - Day}

PrunedKeepsBoundaryOut(days) ==
    IF days.t # "num" THEN {}
    ELSE {e \in usage_events : e.ts <= now - Day * days.v}

Pruned(days) ==
    IF days.t # "num" THEN {}
    ELSE {e \in usage_events : e.ts < now - Day * days.v}

-----------------------------------------------------------------------------
(* The handlers. Each takes the request and ok, whether the query the step *)
(* issues is executed by the database (FALSE: the pool or the database     *)
(* fails it, and pool.query rejects).                                      *)

\* The id sequences are not exhausted (the bound of the model on inserts)
RowsLeft == seq.apps + seq.deployments + seq.usage_events < MaxRows

\* What a step that answers without touching anything leaves alone
Untouched == UNCHANGED <<now, expected, lastPrune0, apps, deployments, usage_events, seq,
                         hits, reached, pending>>

\* requireToken answered in place of the handler
Deny(route, req) ==
    /\ requireToken(req.hdr) # "next"
    /\ resp' = Answer(route, req, AuthStatus(requireToken(req.hdr)),
                      requireToken(req.hdr), <<>>)

\* A read-only handler: requireToken, then one query, then res.json(rows)
ReadOnly(route, req, ok, results) ==
    /\ Untouched
    /\ \/ Deny(route, req)
       \/ /\ requireToken(req.hdr) = "next"
          /\ IF ok
             THEN \E rows \in results : resp' = Answer(route, req, 200, "none", rows)
             ELSE \E o \in RejectOutcomes : resp' = Rejected(route, req, o)

\* GET /health: the one handler with try/catch
Health(req, ok) ==
    /\ Untouched
    /\ resp' = IF ok THEN Answer("GET /health", req, 200, "none", "healthy")
               ELSE Answer("GET /health", req, 503, "none", "unhealthy")

\* POST /api/apps
PostApps(req, ok) ==
    LET route == "POST /api/apps"
        b == req.b
        id == seq.apps + 1
    IN
    /\ UNCHANGED <<now, expected, lastPrune0, deployments, usage_events, hits, reached,
                   pending>>
    /\ \/ Deny(route, req) /\ UNCHANGED <<apps, seq>>
       \/ /\ requireToken(req.hdr) = "next"
          /\ IF Falsy(b.slug) \/ Falsy(b.name)
             THEN /\ resp' = Answer(route, req, 400, "slug_and_name_required", <<>>)
                  /\ UNCHANGED <<apps, seq>>
             ELSE IF ~ok
             THEN /\ \E o \in RejectOutcomes : resp' = Rejected(route, req, o)
                  /\ UNCHANGED <<apps, seq>>
             ELSE /\ RowsLeft
                  \* nextval is drawn for the proposed row before the
                  \* conflict on slug is found
                  /\ seq' = [seq EXCEPT !.apps = id]
                  /\ apps' = {a \in apps : a.slug # b.slug} \cup upsert(b, id)
                  /\ \E row \in upsert(b, id) :
                        resp' = Answer(route, req, 200, "none", row)

\* The first half of POST /api/deployments and POST /api/usage, after
\* requireToken: validate app_slug, look the app up, answer 404 or go on to
\* the insert.
Lookup(route, req, ok) ==
    LET b == req.b IN
    /\ UNCHANGED <<now, expected, lastPrune0, apps, deployments, usage_events, seq>>
    /\ \/ Deny(route, req) /\ UNCHANGED pending
       \/ /\ requireToken(req.hdr) = "next"
          /\ IF Falsy(b.app_slug)
             THEN /\ resp' = Answer(route, req, 400, "app_slug_required", <<>>)
                  /\ UNCHANGED pending
             ELSE IF ~ok
             THEN /\ \E o \in RejectOutcomes : resp' = Rejected(route, req, o)
                  /\ UNCHANGED pending
             ELSE IF SelectAppIds(b.app_slug) = {}
             THEN /\ resp' = Answer(route, req, 404, "app_not_found", <<>>)
                  /\ UNCHANGED pending
             ELSE /\ Cardinality(pending) < MaxPending
                  /\ \E appId \in SelectAppIds(b.app_slug) :
                        pending' = pending \cup
                            {[route |-> route, req |-> req, appId |-> appId]}
                  /\ resp' = Awaiting(route, req)

\* POST /api/deployments, up to its second await
PostDeployments(req, ok) ==
    /\ Lookup("POST /api/deployments", req, ok)
    /\ UNCHANGED <<hits, reached>>

\* POST /api/deployments, from its second await: the insert
InsertDeployment(p, ok) ==
    LET b == p.req.b
        id == seq.deployments + 1
        row == [id |-> id, app_id |-> p.appId,
                environment |-> Default(b.environment, "prod"),
                version |-> OrNull(b.version), note |-> OrNull(b.note),
                deployed_by |-> OrNull(b.deployed_by), deployed_at |-> now]
        accepted == /\ ok
                    /\ row.environment # NULL
                    /\ row.app_id \in {a.id : a \in apps}
    IN
    /\ p \in pending
    /\ p.route = "POST /api/deployments"
    /\ pending' = pending \ {p}
    /\ UNCHANGED <<now, expected, lastPrune0, apps, usage_events, hits, reached>>
    /\ IF accepted
       THEN /\ RowsLeft
            /\ seq' = [seq EXCEPT !.deployments = id]
            /\ deployments' = deployments \cup {row}
            /\ resp' = Answer(p.route, p.req, 200, "none", row)
       ELSE /\ \E o \in RejectOutcomes : resp' = Rejected(p.route, p.req, o)
            /\ UNCHANGED <<deployments, seq>>

\* usageLimiter (express-rate-limit, memory store): count the request under
\* its key req.ip; more than max within the window is answered 429 with
\* message.
LimitedFromMax(ip) == hits[ip] + 1 >= usageMax

Limited(ip) == hits[ip] + 1 > usageMax

\* POST /api/usage of the rate-limited server, up to its second await
PostUsage(req, ok) ==
    LET route == "POST /api/usage" IN
    /\ hits[req.ip] < MaxHits
    /\ hits' = [hits EXCEPT ![req.ip] = @ + 1]
    /\ IF Limited(req.ip)
       THEN /\ resp' = Answer(route, req, 429, "rate_limit_exceeded",
                              [retry_after |-> retryAfter])
            /\ UNCHANGED <<now, expected, lastPrune0, apps, deployments, usage_events,
                           seq, reached, pending>>
       ELSE /\ reached' = [reached EXCEPT ![req.ip] = @ + 1]
            /\ Lookup(route, req, ok)

\* POST /api/usage of server/index.js, up to its second await
PostUsageV1(req, ok) ==
    /\ Lookup("POST /api/usage (index.js)", req, ok)
    /\ UNCHANGED <<hits, reached>>

\* The columns the insert of each POST /api/usage names
UsageColumns(route) ==
    IF route = "POST /api/usage"
    THEN {"app_id", "kind", "method", "path", "status", "ip", "user_agent",
          "error_message"}
    ELSE {"app_id", "kind", "method", "path", "status", "ip", "user_agent"}

\* POST /api/usage, from its second await: the insert
InsertUsage(p, ok) ==
    LET b == p.req.b
        id == seq.usage_events + 1
        row == [id |-> id, app_id |-> p.appId, ts |-> now,
                kind |-> Default(b.kind, "request"),
                method |-> OrNull(b.method), path |-> OrNull(b.path),
                status |-> NumOrNull(b.status), ip |-> OrNull(b.ip),
                user_agent |-> OrNull(b.user_agent)]
        accepted == /\ ok
                    /\ InsertCompiles("usage_events", UsageColumns(p.route))
                    /\ row.kind # NULL
                    /\ IntOK(row.status)
                    /\ InetOK(row.ip)
                    /\ row.app_id \in {a.id : a \in apps}
    IN
    /\ p \in pending
    /\ p.route \in {"POST /api/usage", "POST /api/usage (index.js)"}
    /\ pending' = pending \ {p}
    /\ UNCHANGED <<now, expected, lastPrune0, apps, deployments, hits, reached>>
    /\ IF accepted
       THEN /\ RowsLeft
            /\ seq' = [seq EXCEPT !.usage_events = id]
            /\ usage_events' = usage_events \cup {row}
            /\ resp' = Answer(p.route, p.req, 200, "none", row)
       ELSE /\ \E o \in RejectOutcomes : resp' = Rejected(p.route, p.req, o)
            /\ UNCHANGED <<usage_events, seq>>

\* GET /api/dashboard/overview
GetOverview(req, ok) ==
    ReadOnly("GET /api/dashboard/overview", req, ok,
             {OverviewRows(ld) : ld \in last_deploy})

\* GET /api/dashboard/analytics: three statements under Promise.all; the
\* daily totals are the result of one of them, dailyQ.
GetAnalytics(req, ok) ==
    ReadOnly("GET /api/dashboard/analytics", req, ok,
             {[daily |-> dailyQ, by_app |-> top,
               recent_deployments_count |-> recentDeploysQ]
                 : top \in TopK(byAppQ, 10, TotalOf)})

\* GET /api/dashboard/deployments
GetDeployments(req, ok) ==
    ReadOnly("GET /api/dashboard/deployments", req, ok,
             TopK(deploymentsQ, 50, DeployedAtOf))

\* GET /api/dashboard/routes
GetRoutes(req, ok) ==
    ReadOnly("GET /api/dashboard/routes", req, ok, TopK(routesQ, 50, HitsOf))

\* GET /api/dashboard/errors
ErrorsColumns ==
    {"app_id", "path", "method", "status", "error_message", "ts", "ip"}

GetErrors(req, ok) ==
    ReadOnly("GET /api/dashboard/errors", req,
             ok /\ SelectCompiles("usage_events", ErrorsColumns),
             TopK(errorsQ, 100, TsOf))

\* GET /api/stats: no requireToken
GetStats(req, ok) ==
    /\ Untouched
    /\ IF ok THEN resp' = Answer("GET /api/stats", req, 200, "none", statsQ)
       ELSE \E o \in RejectOutcomes : resp' = Rejected("GET /api/stats", req, o)

\* POST /api/admin/prune
PostPrune(req, ok) ==
    LET route == "POST /api/admin/prune"
        days == IF req.b.days = U THEN Num(defaultDays) ELSE req.b.days
    IN
    /\ UNCHANGED <<now, expected, apps, deployments, seq, hits, reached,
                   pending>>
    /\ \/ Deny(route, req) /\ UNCHANGED <<usage_events, lastPrune0>>
       \/ /\ requireToken(req.hdr) = "next"
          /\ IF ok /\ days.t \in {"num", "null"}
             THEN /\ usage_events' = usage_events \ Pruned(days)
                  /\ lastPrune0' = IF days = Num(0) THEN Num(now)
                                   ELSE lastPrune0
                  /\ resp' = Answer(route, req, 200, "none",
                                    [pruned |-> Cardinality(Pruned(days)),
                                     retention_days |-> days,
                                     timestamp |-> now])
             ELSE /\ \E o \in RejectOutcomes : resp' = Rejected(route, req, o)
                  /\ UNCHANGED <<usage_events, lastPrune0>>

-----------------------------------------------------------------------------
(* The environment: time passes.                                           *)

IPs == {"10.0.0.1", "10.0.0.2"}

\* The window of one key of usageLimiter ends (windowMs after it began)
WindowExpire(ip) ==
    /\ hits[ip] > 0
    /\ hits' = [hits EXCEPT ![ip] = 0]
    /\ reached' = [reached EXCEPT ![ip] = 0]
    /\ resp' = NoResp
    /\ UNCHANGED <<now, expected, lastPrune0, apps, deployments, usage_events, seq, pending>>

\* d ticks (of 12 hours) pass: every window of usageLimiter has ended
Tick(d) ==
    /\ d > 0
    /\ now' = now + d
    /\ hits' = [ip \in IPs |-> 0]
    /\ reached' = [ip \in IPs |-> 0]
    /\ resp' = NoResp
    /\ UNCHANGED <<expected, lastPrune0, apps, deployments, usage_events, seq, pending>>

-----------------------------------------------------------------------------
(* Requests the specifications draw from.                                  *)

Req(ip, hdr, b) == [ip |-> ip, hdr |-> hdr, b |-> b]

Token == <<"T1">>
Good == <<"Bearer", " ", "T1">>
IP1 == "10.0.0.1"
IP2 == "10.0.0.2"

AppBody(slug, name, repo_url, public_url) ==
    [slug |-> slug, name |-> name, repo_url |-> repo_url,
     public_url |-> public_url]

DepBody(app_slug, environment, version) ==
    [app_slug |-> app_slug, environment |-> environment, version |-> version,
     note |-> Absent, deployed_by |-> Absent]

UsageBody(app_slug, kind, path, status, ip) ==
    [app_slug |-> app_slug, kind |-> kind, method |-> Absent, path |-> path,
     status |-> status, ip |-> ip, user_agent |-> Absent,
     error_message |-> Absent]

PruneBody(days) == [days |-> days]
NoBody == [days |-> U]

InitWith(tokens) ==
    /\ now = 0
    /\ expected \in tokens
    /\ lastPrune0 = N
    /\ apps = {}
    /\ deployments = {}
    /\ usage_events = {}
    /\ seq = [apps |-> 0, deployments |-> 0, usage_events |-> 0]
    /\ hits = [ip \in IPs |-> 0]
    /\ reached = [ip \in IPs |-> 0]
    /\ pending = {}
    /\ resp = NoResp

-----------------------------------------------------------------------------
(* Spec: every operation of the API, with a configured token and           *)
(* authorized callers, over a small registry.                              *)

Init == InitWith({Token})

AppReqs == {Req(IP1, Good, AppBody("blog", "Blog", Absent, Absent))}
DepReqs == {Req(IP1, Good, DepBody(s, Absent, "v1")) : s \in {"blog", "shop"}}
UseReqs == {Req(IP1, Good, UsageBody(s, Absent, Absent, U, Absent))
              : s \in {"blog", "shop"}}
GetReqs == {Req(IP1, Good, NoBody)}
PruneReqs == {Req(IP1, Good, PruneBody(d)) : d \in {U, Num(1)}}

Next ==
    \/ \E r \in GetReqs : Health(r, TRUE)
    \/ \E r \in AppReqs : PostApps(r, TRUE)
    \/ \E r \in DepReqs : PostDeployments(r, TRUE)
    \/ \E p \in pending : InsertDeployment(p, TRUE)
    \/ \E r \in UseReqs : hits[r.ip] < MaxOther /\ PostUsage(r, TRUE)
    \/ \E r \in UseReqs : PostUsageV1(r, TRUE)
    \/ \E p \in pending : InsertUsage(p, TRUE)
    \/ \E r \in GetReqs : GetOverview(r, TRUE)
    \/ \E r \in GetReqs : GetAnalytics(r, TRUE)
    \/ \E r \in GetReqs : GetDeployments(r, TRUE)
    \/ \E r \in GetReqs : GetRoutes(r, TRUE)
    \/ \E r \in GetReqs : GetErrors(r, TRUE)
    \/ \E r \in GetReqs : GetStats(r, TRUE)
    \/ \E r \in PruneReqs : PostPrune(r, TRUE)
    \/ now + 1 <= MaxNow /\ Tick(1)

Spec == Init /\ [][Next]_vars

-----------------------------------------------------------------------------
(* SpecIngest: the three ingestion endpoints of both servers, from one IP, *)
(* with registered and unregistered slugs, while applications are being    *)
(* registered and the limiter's window runs.                               *)

IngestApps == {Req(IP1, Good, AppBody("blog", "Blog", Absent, Absent))}
IngestDeps == {Req(IP1, Good, DepBody(s, Absent, Absent))
                 : s \in {"blog", "shop", Absent}}
IngestUses == {Req(IP1, Good, UsageBody(s, Absent, Absent, U, Absent))
                 : s \in {"blog", "shop"}}

NextIngest ==
    \/ \E r \in IngestApps : PostApps(r, TRUE)
    \/ \E r \in IngestDeps, ok \in BOOLEAN : PostDeployments(r, ok)
    \/ \E p \in pending : InsertDeployment(p, TRUE)
    \/ \E r \in IngestUses, ok \in BOOLEAN : PostUsage(r, ok)
    \/ \E r \in IngestUses, ok \in BOOLEAN : PostUsageV1(r, ok)
    \/ \E p \in pending : InsertUsage(p, TRUE)
    \/ WindowExpire(IP1)

SpecIngest == InitWith({Token}) /\ [][NextIngest]_vars

-----------------------------------------------------------------------------
(* SpecAuth: every endpoint, called with and without the configured token, *)
(* on a server with and without DASHBOARD_TOKEN.                           *)

Headers ==
    {NoHeader, Good, <<"bearer", " ", " ", "T1">>, <<"T1">>,
     <<"Bearer", " ", "T2">>, <<"Bearer", "T1">>}

AuthApps == {Req(IP1, h, AppBody("blog", "Blog", Absent, Absent)) : h \in Headers}
AuthDeps == {Req(IP1, h, DepBody("shop", Absent, Absent)) : h \in Headers}
AuthUses == {Req(IP1, h, UsageBody("shop", Absent, Absent, U, Absent))
               : h \in Headers}
AuthGets == {Req(IP1, h, NoBody) : h \in Headers}
AuthPrunes == {Req(IP1, h, PruneBody(Num(1))) : h \in Headers}

NextAuth ==
    \/ \E r \in AuthGets : Health(r, TRUE)
    \/ \E r \in AuthApps : PostApps(r, TRUE)
    \/ \E r \in AuthDeps : PostDeployments(r, TRUE)
    \/ \E r \in AuthUses : PostUsage(r, TRUE)
    \/ \E r \in AuthUses : PostUsageV1(r, TRUE)
    \/ \E r \in AuthGets : GetOverview(r, TRUE)
    \/ \E r \in AuthGets : GetAnalytics(r, TRUE)
    \/ \E r \in AuthGets : GetDeployments(r, TRUE)
    \/ \E r \in AuthGets : GetRoutes(r, TRUE)
    \/ \E r \in AuthGets : GetErrors(r, TRUE)
    \/ \E r \in AuthGets : GetStats(r, TRUE)
    \/ \E r \in AuthPrunes : PostPrune(r, TRUE)
    \/ WindowExpire(IP1)

SpecAuth == InitWith({<<>>, Token}) /\ [][NextAuth]_vars

-----------------------------------------------------------------------------
(* SpecApps: the registry under repeated upserts of two slugs, with every  *)
(* combination of given and omitted optional fields, as time passes.       *)

Names == {"Blog", "Blog v2"}
Urls == {<<Absent, Absent>>, <<"git://r", Absent>>, <<"git://r", "https://u">>}
RegistryApps ==
    {Req(IP1, Good, AppBody(s, n, u[1], u[2])) :
        s \in {"blog", "shop"}, n \in Names, u \in Urls}
    \cup {Req(IP1, Good, AppBody("blog", Absent, Absent, Absent))}

NextApps ==
    \/ \E r \in RegistryApps, ok \in BOOLEAN : PostApps(r, ok)
    \/ now + 1 <= MaxNowApps /\ Tick(1)

SpecApps == InitWith({Token}) /\ [][NextApps]_vars

-----------------------------------------------------------------------------
(* SpecPrune: retention pruning with days = 0 (and null), re-run at will,  *)
(* while usage events keep arriving and time passes.                       *)

PruneZeroReqs == {Req(IP1, Good, PruneBody(d)) : d \in {Num(0), N}}
PruneApps == {Req(IP1, Good, AppBody("blog", "Blog", Absent, Absent))}
PruneUses == {Req(IP1, Good, UsageBody("blog", Absent, Absent, U, Absent))}

NextPrune ==
    \/ \E r \in PruneApps : PostApps(r, TRUE)
    \/ \E r \in PruneUses : PostUsageV1(r, TRUE)
    \/ \E p \in pending : InsertUsage(p, TRUE)
    \/ \E r \in PruneZeroReqs, ok \in BOOLEAN : PostPrune(r, ok)
    \/ now + 1 <= MaxNow /\ Tick(1)

SpecPrune == InitWith({Token}) /\ [][NextPrune]_vars

-----------------------------------------------------------------------------
(* SpecOverview: the overview over registries of one or two applications,  *)
(* with deployments (some at the same instant) and usage events of         *)
(* different ages.                                                         *)

OverviewApps == {Req(IP1, Good, AppBody(s, "Blog", Absent, Absent))
                   : s \in {"blog", "shop"}}
OverviewDeps == {Req(IP1, Good, DepBody("blog", Absent, v)) : v \in {"v1", "v2"}}
                \cup {Req(IP1, Good, DepBody("blog", "staging", "v1"))}
OverviewUses == {Req(IP1, Good, UsageBody("blog", Absent, Absent, U, Absent))}

NextOverview ==
    \/ \E r \in OverviewApps : PostApps(r, TRUE)
    \/ \E r \in OverviewDeps : PostDeployments(r, TRUE)
    \/ \E p \in pending : InsertDeployment(p, TRUE)
    \/ \E r \in OverviewUses : PostUsageV1(r, TRUE)
    \/ \E p \in pending : InsertUsage(p, TRUE)
    \/ \E r \in GetReqs : GetOverview(r, TRUE)
    \/ now + 1 <= MaxNow /\ Tick(1)

SpecOverview == InitWith({Token}) /\ [][NextOverview]_vars

-----------------------------------------------------------------------------
(* SpecAnalytics: the analytics over usage events spread over more than a  *)
(* week: the clock moves by half a day or by six and a half days.          *)

WeekSteps == {1, 13}

NextAnalytics ==
    \/ \E r \in PruneApps : PostApps(r, TRUE)
    \/ \E r \in PruneUses : PostUsageV1(r, TRUE)
    \/ \E p \in pending : InsertUsage(p, TRUE)
    \/ \E r \in GetReqs : GetAnalytics(r, TRUE)
    \/ \E d \in WeekSteps : now + d <= MaxNowWeek /\ Tick(d)

SpecAnalytics == InitWith({Token}) /\ [][NextAnalytics]_vars

-----------------------------------------------------------------------------
(* SpecFail: every handler that queries the database, with queries that    *)
(* succeed or are rejected (connection lost, statement refused).           *)

FailPrunes == {Req(IP1, Good, PruneBody(d)) : d \in {Num(1), Str("week")}}

NextFail ==
    \/ \E r \in GetReqs, ok \in BOOLEAN : Health(r, ok)
    \/ \E r \in AppReqs, ok \in BOOLEAN : PostApps(r, ok)
    \/ \E r \in DepReqs, ok \in BOOLEAN : PostDeployments(r, ok)
    \/ \E p \in pending, ok \in BOOLEAN : InsertDeployment(p, ok)
    \/ \E r \in UseReqs, ok \in BOOLEAN :
          hits[r.ip] < MaxOther /\ PostUsage(r, ok)
    \/ \E p \in pending, ok \in BOOLEAN : InsertUsage(p, ok)
    \/ \E r \in GetReqs, ok \in BOOLEAN : GetOverview(r, ok)
    \/ \E r \in GetReqs, ok \in BOOLEAN : GetAnalytics(r, ok)
    \/ \E r \in GetReqs, ok \in BOOLEAN : GetDeployments(r, ok)
    \/ \E r \in GetReqs, ok \in BOOLEAN : GetRoutes(r, ok)
    \/ \E r \in GetReqs, ok \in BOOLEAN : GetErrors(r, ok)
    \/ \E r \in GetReqs, ok \in BOOLEAN : GetStats(r, ok)
    \/ \E r \in FailPrunes, ok \in BOOLEAN : PostPrune(r, ok)
    \/ \E ip \in IPs : WindowExpire(ip)

SpecFail == InitWith({Token}) /\ [][NextFail]_vars

-----------------------------------------------------------------------------
(* SpecRate: POST /api/usage of the rate-limited server from two           *)
(* addresses, one of them past the limit, with and without a token, as     *)
(* windows end.                                                            *)

RateApps == {Req(IP2, Good, AppBody("blog", "Blog", Absent, Absent))}
RateUses == {Req(ip, h, UsageBody("blog", Absent, Absent, U, Absent))
               : ip \in IPs, h \in {Good, NoHeader}}

NextRate ==
    \/ \E r \in RateApps : PostApps(r, TRUE)
    \/ \E r \in RateUses :
          (r.ip = IP1 \/ hits[r.ip] < MaxOther) /\ PostUsage(r, TRUE)
    \/ \E p \in pending : InsertUsage(p, TRUE)
    \/ \E ip \in IPs : WindowExpire(ip)
    \/ now + 1 <= MaxNowApps /\ Tick(1)

SpecRate == InitWith({Token}) /\ [][NextRate]_vars

-----------------------------------------------------------------------------
(* SpecRecord: deployments and usage events recorded by authorized callers *)
(* for an application once it is registered, with optional fields         *)
(* given or omitted, by both servers; every query reaches the database.    *)

RecordApps == {Req(IP1, Good, AppBody("blog", "Blog", Absent, Absent))}
RecordDeps == {Req(IP1, Good, DepBody("blog", e, Absent))
                 : e \in {Absent, "staging"}}
RecordUses ==
    {Req(IP1, Good, [UsageBody("blog", km[1], Absent, U, Absent)
                        EXCEPT !.error_message = km[2]])
        : km \in {<<Absent, Absent>>, <<"error", "boom">>}}

NextRecord ==
    \/ \E r \in RecordApps : PostApps(r, TRUE)
    \/ \E r \in RecordDeps : PostDeployments(r, TRUE)
    \/ \E p \in pending : InsertDeployment(p, TRUE)
    \/ \E r \in RecordUses : hits[r.ip] < MaxOther /\ PostUsage(r, TRUE)
    \/ \E r \in RecordUses : PostUsageV1(r, TRUE)
    \/ \E p \in pending : InsertUsage(p, TRUE)
    \/ WindowExpire(IP1)
    \/ now + 1 <= MaxNowApps /\ Tick(1)

SpecRecord == InitWith({Token}) /\ [][NextRecord]_vars

-----------------------------------------------------------------------------
(* Claims. A step's request and answer are read from resp', the tables it  *)
(* found from the unprimed variables.                                      *)

LookupRoutes ==
    {"POST /api/deployments", "POST /api/usage", "POST /api/usage (index.js)"}

ProtectedRoutes ==
    {"POST /api/apps", "POST /api/deployments", "POST /api/usage",
     "POST /api/usage (index.js)", "GET /api/dashboard/overview",
     "GET /api/dashboard/analytics", "GET /api/dashboard/deployments",
     "GET /api/dashboard/routes", "GET /api/dashboard/errors",
     "POST /api/admin/prune"}

\* The step answers (or suspends) a request on one of the routes
StepOn(routes) == resp'.route \in routes

\* The step's request carries the configured token
StepHasToken == expected # <<>> /\ Got(resp'.req.hdr) = expected

\* The step's request names a slug that no row of apps carries
StepUnknownSlug ==
    /\ ~Falsy(resp'.req.b.app_slug)
    /\ \A a \in apps : a.slug # resp'.req.b.app_slug

\* The step's request is the one usageLimiter turns away: POST /api/usage
\* of the rate-limited server, from an IP that has used up its window
StepOverLimit ==
    /\ resp'.route = "POST /api/usage"
    /\ hits[resp'.req.ip] >= usageMax

StepWritesNothing ==
    /\ apps' = apps
    /\ deployments' = deployments
    /\ usage_events' = usage_events
    /\ seq' = seq
    /\ pending' = pending

\* C1 as stated: a deployment or usage event recorded with a valid token
\* against a slug that matches no row of apps is always answered 404
\* app_not_found and writes nothing (the lookup having been executed).
C1_AlwaysNotFound ==
    [][(StepOn(LookupRoutes) /\ StepHasToken /\ StepUnknownSlug
            /\ ~resp'.failed)
         => /\ resp'.status = 404
            /\ resp'.error = "app_not_found"
            /\ StepWritesNothing]_vars

\* C1 as amended: such a request never writes anything; it is answered 404
\* app_not_found whenever its lookup is executed, except that POST
\* /api/usage of the rate-limited server is answered 429
\* rate_limit_exceeded, before the token and the slug are looked at, once
\* its IP has used up the window.
C1_NotFoundUnlessLimited ==
    [][(StepOn(LookupRoutes) /\ StepHasToken /\ StepUnknownSlug)
         => /\ StepWritesNothing
            /\ IF StepOverLimit
               THEN resp'.status = 429 /\ resp'.error = "rate_limit_exceeded"
               ELSE \/ resp'.failed
                    \/ resp'.status = 404 /\ resp'.error = "app_not_found"]_vars

\* A 404 for an unregistered slug, answered while the tables hold rows and
\* another handler is suspended between its two queries
C1_Witness ==
    /\ resp.route \in LookupRoutes
    /\ resp.status = 404
    /\ resp.req.b.app_slug = "shop"
    /\ apps # {}
    /\ deployments # {}
    /\ pending # {}

\* The step's request does not carry the configured token (none is
\* configured, or the header, less an optional "Bearer " prefix, is not it)
StepLacksToken == expected = <<>> \/ Got(resp'.req.hdr) # expected

\* C2 as stated: a request without a valid token to a protected endpoint is
\* answered 401 unauthorized, or 500 server_not_configured when no token is
\* configured, and touches no table.
C2_AlwaysDenied ==
    [][(StepOn(ProtectedRoutes) /\ StepLacksToken)
         => /\ StepWritesNothing
            /\ resp'.json
            /\ resp'.body = <<>>
            /\ IF expected = <<>>
               THEN resp'.status = 500 /\ resp'.error = "server_not_configured"
               ELSE resp'.status = 401 /\ resp'.error = "unauthorized"]_vars

\* C2 as amended: the same, except that POST /api/usage of the rate-limited
\* server is answered 429 rate_limit_exceeded, whatever the token, once its
\* IP has used up the window; no such request touches a table.
C2_DeniedUnlessLimited ==
    [][(StepOn(ProtectedRoutes) /\ StepLacksToken)
         => /\ StepWritesNothing
            /\ resp'.json
            /\ IF StepOverLimit
               THEN resp'.status = 429 /\ resp'.error = "rate_limit_exceeded"
               ELSE /\ resp'.body = <<>>
                    /\ IF expected = <<>>
                       THEN /\ resp'.status = 500
                            /\ resp'.error = "server_not_configured"
                       ELSE /\ resp'.status = 401
                            /\ resp'.error = "unauthorized"]_vars

\* A 401 on the prune endpoint, for a wrong token, on a server that holds
\* a row
C2_Witness ==
    /\ resp.route = "POST /api/admin/prune"
    /\ resp.status = 401
    /\ resp.req.hdr = <<"Bearer", " ", "T2">>
    /\ apps # {}

\* The value a field of the body leaves in its column
Stored(v) == IF v = Absent THEN NULL ELSE v

\* C3: at most one row of apps per slug; a row keeps the id and created_at
\* of its first insert through every later step; and after an upsert the
\* row of its slug carries the name, repo_url and public_url of that upsert
\* (null for an omitted one), every other row being as it was.
C3_OneRowLatestName ==
    /\ [](\A a1, a2 \in apps : a1.slug = a2.slug => a1 = a2)
    /\ [][\A a \in apps : \E a2 \in apps' :
             a2.slug = a.slug /\ a2.id = a.id /\ a2.created_at = a.created_at]_vars
    /\ [][(resp'.route = "POST /api/apps" /\ resp'.status = 200)
            => /\ \E a \in apps' :
                    /\ a = resp'.body
                    /\ a.slug = resp'.req.b.slug
                    /\ a.name = resp'.req.b.name
                    /\ a.repo_url = Stored(resp'.req.b.repo_url)
                    /\ a.public_url = Stored(resp'.req.b.public_url)
               /\ \A a \in apps : a.slug # resp'.req.b.slug => a \in apps'
               /\ \A a \in apps' : a.slug # resp'.req.b.slug => a \in apps]_vars

\* A second upsert of a slug, later and under another name, answered with
\* the row of the first: its id is not the one the sequence just gave out.
C3_Witness ==
    /\ resp.route = "POST /api/apps"
    /\ resp.status = 200
    /\ resp.body.name = "Blog v2"
    /\ resp.body.repo_url = NULL
    /\ resp.body.id < seq.apps
    /\ resp.body.created_at < now
    /\ Cardinality(apps) = 2

\* The step is a prune that ran
StepPruned == resp'.route = "POST /api/admin/prune" /\ resp'.status = 200

StepPrunedZero == StepPruned /\ resp'.req.b.days = Num(0)

StepDays ==
    IF resp'.req.b.days = U THEN defaultDays ELSE resp'.req.b.days.v

\* C10: an authorized prune with days = N (90 when the body gives none)
\* deletes exactly the usage events with ts < now - N days and reports
\* their number, leaving every other usage event, every deployment and
\* every application as it was; and no step of any other operation deletes
\* or changes a row of deployments or usage_events.
C10_PruneDeletesExactlyOld ==
    /\ [][(StepPruned /\ resp'.req.b.days.t \in {"num", "undefined"})
            => /\ usage_events' =
                     {e \in usage_events : e.ts >= now - StepDays * Day}
               /\ resp'.body.pruned =
                     Cardinality(usage_events) - Cardinality(usage_events')
               /\ resp'.body.retention_days = Num(StepDays)
               /\ deployments' = deployments
               /\ apps' = apps]_vars
    /\ [][~StepPruned
            => /\ usage_events \subseteq usage_events'
               /\ deployments \subseteq deployments']_vars

\* A prune with days = 1 that deleted an event and kept another
C10_Witness ==
    /\ resp.route = "POST /api/admin/prune"
    /\ resp.status = 200
    /\ resp.req.b.days = Num(1)
    /\ resp.body.pruned >= 1
    /\ usage_events # {}

\* The last step answered the overview (over the tables as they are)
OverviewAnswered ==
    resp.route = "GET /api/dashboard/overview" /\ resp.status = 200

DeploymentsOf(a) == {d \in deployments : d.app_id = a.id}

\* C5: each application has exactly one row in the overview; its
\* latest-deployment fields are those of one deployment of the application
\* with the greatest deployed_at, also among deployments of the same
\* instant, and are all null for an application without deployment.
C5_LatestDeploymentOneRow ==
    OverviewAnswered =>
        /\ \A r \in resp.body : \E a \in apps : a.slug = r.slug
        /\ \A a \in apps :
              /\ Cardinality({r \in resp.body : r.slug = a.slug}) = 1
              /\ \A r \in {x \in resp.body : x.slug = a.slug} :
                    IF DeploymentsOf(a) = {}
                    THEN /\ r.deployed_at = N
                         /\ r.environment = NULL
                         /\ r.version = NULL
                         /\ r.note = NULL
                    ELSE \E d \in DeploymentsOf(a) :
                            /\ \A e \in DeploymentsOf(a) :
                                  e.deployed_at <= d.deployed_at
                            /\ r.deployed_at = Num(d.deployed_at)
                            /\ r.environment = d.environment
                            /\ r.version = d.version
                            /\ r.note = d.note

\* The overview of an application with two deployments of the same instant
\* and of different versions, after the clock has moved on
C5_Witness ==
    /\ OverviewAnswered
    /\ \E d1, d2 \in deployments :
          /\ d1.app_id = d2.app_id
          /\ d1.deployed_at = d2.deployed_at
          /\ d1.version # d2.version
          /\ d1.deployed_at < now
          /\ \E r \in resp.body : r.version = d2.version

\* C6: hits_24h of each application is the number of its usage events with
\* ts >= now - 24 hours: a number, 0 when there is none.
C6_HitsZeroFilled ==
    OverviewAnswered =>
        \A a \in apps : \A r \in {x \in resp.body : x.slug = a.slug} :
            r.hits_24h =
                Num(Cardinality({e \in usage_events :
                                   e.app_id = a.id /\ e.ts >= now - Hours24}))

\* The overview of an application whose only usage event is older than 24
\* hours, beside one without event or deployment
C6_Witness ==
    /\ OverviewAnswered
    /\ Cardinality(apps) = 2
    /\ usage_events # {}
    /\ \A e \in usage_events : e.ts < now - Hours24
    /\ \A r \in resp.body : r.hits_24h = Num(0)

\* The last step answered the analytics (over the tables as they are)
AnalyticsAnswered ==
    resp.route = "GET /api/dashboard/analytics" /\ resp.status = 200

RECURSIVE SumTotals(_)
SumTotals(rows) ==
    IF rows = {} THEN 0
    ELSE LET r == CHOOSE x \in rows : TRUE
         IN r.total + SumTotals(rows \ {r})

\* C7: the daily totals sum to the number of usage events with
\* ts >= now - 7 days at that instant; each day has one row, and each
\* event of the window is counted in the row of its day.
C7_DailySumsToWindowCount ==
    AnalyticsAnswered =>
        LET daily == resp.body.daily
            window == {e \in usage_events : e.ts >= now - Days7}
        IN /\ SumTotals(daily) = Cardinality(window)
           /\ \A r1, r2 \in daily : r1.date = r2.date => r1 = r2
           /\ \A e \in window :
                 \E r \in daily : r.date = date_trunc_day(e.ts) /\ r.total > 0

\* The analytics with an event exactly 7 days old and an older one
C7_Witness ==
    /\ AnalyticsAnswered
    /\ \E e \in usage_events : e.ts = now - Days7
    /\ \E e \in usage_events : e.ts < now - Days7
    /\ resp.body.daily # {}

\* The routes of C8: every handler that queries the database without a
\* try/catch of its own
QueryRoutes ==
    {"POST /api/apps", "POST /api/deployments", "POST /api/usage",
     "GET /api/dashboard/overview", "GET /api/dashboard/analytics",
     "GET /api/deployments", "GET /api/dashboard/routes",
     "GET /api/dashboard/errors", "POST /api/admin/prune", "GET /api/stats"}

\* C8: a request whose database query failed completes with a server-error
\* status and a JSON body carrying an error code (as stated; the code sends
\* no such answer).
C8_FailureSurfacedAsJson ==
    (resp.failed /\ resp.route \in QueryRoutes) =>
        /\ resp.status >= 500
        /\ resp.json
        /\ resp.error # "none"

\* C9: a request to POST /api/usage counts under its own address only; it is
\* answered 429 rate_limit_exceeded with retry_after 60 and writes nothing
\* exactly when the address already made 100 requests in the window, so at
\* most 100 requests of an address reach the token check in a window; a
\* counter only ever falls back to zero.
C9_FixedWindowPerIp ==
    /\ [](\A ip \in IPs : reached[ip] <= 100)
    /\ [][\A ip \in IPs : hits'[ip] > hits[ip] =>
            /\ hits'[ip] = hits[ip] + 1
            /\ resp'.route = "POST /api/usage"
            /\ resp'.req.ip = ip
            /\ \A o \in IPs \ {ip} :
                  hits'[o] = hits[o] /\ reached'[o] = reached[o]
            /\ IF hits[ip] >= 100
               THEN /\ resp'.status = 429
                    /\ resp'.json
                    /\ resp'.error = "rate_limit_exceeded"
                    /\ resp'.body = [retry_after |-> 60]
                    /\ reached' = reached
                    /\ StepWritesNothing
               ELSE /\ resp'.status # 429
                    /\ reached'[ip] = reached[ip] + 1]_vars
    /\ [][\A ip \in IPs : hits'[ip] < hits[ip] =>
            hits'[ip] = 0 /\ reached'[ip] = 0]_vars

\* The 101st request of one address in a window is answered 429 while the
\* other address has been served in its own window
C9_Witness ==
    /\ resp.route = "POST /api/usage"
    /\ resp.status = 429
    /\ resp.req.ip = IP1
    /\ hits[IP1] = 101
    /\ reached[IP1] = 100
    /\ hits[IP2] = 1
    /\ reached[IP2] = 1

\* The step is the insert of the suspended request p: it ends the request
StepInserts(p) ==
    /\ p \in pending
    /\ p \notin pending'
    /\ resp'.route = p.route
    /\ resp'.req = p.req

\* The application a recorded row must belong to
OwnerIds(slug) == {a.id : a \in {x \in apps : x.slug = slug}}

\* C11, deployments: the insert of an authorized POST /api/deployments for
\* a registered application answers 200 and appends exactly one row, owned
\* by the application, with environment "prod" when omitted, omitted
\* fields null and deployed_at the time of the insert.
C11_DeploymentRecorded ==
    [][\A p \in pending :
          (StepInserts(p) /\ p.route = "POST /api/deployments") =>
             /\ resp'.status = 200
             /\ \E row \in deployments' \ deployments :
                   /\ deployments' = deployments \cup {row}
                   /\ resp'.body = row
                   /\ row.app_id \in OwnerIds(p.req.b.app_slug)
                   /\ row.environment =
                         (IF p.req.b.environment = Absent THEN "prod"
                          ELSE p.req.b.environment)
                   /\ row.version = NULL
                   /\ row.note = NULL
                   /\ row.deployed_by = NULL
                   /\ row.deployed_at = now
             /\ usage_events' = usage_events
             /\ apps' = apps]_vars

\* A deployment recorded with the default environment
C11_DeploymentWitness ==
    /\ resp.route = "POST /api/deployments"
    /\ resp.status = 200
    /\ resp.req.b.environment = Absent
    /\ resp.body \in deployments
    /\ resp.body.environment = "prod"

\* C11 as stated: the insert of an authorized, not rate-limited
\* POST /api/usage (of the server that writes error_message) or
\* POST /api/deployments for a registered application answers 200 and
\* appends exactly one row owned by the application, with kind "request"
\* (environment "prod") when omitted and the timestamp of the insert.
C11_RecordedAgainstSchema ==
    [][\A p \in pending :
          (StepInserts(p)
             /\ p.route \in {"POST /api/usage", "POST /api/deployments"}) =>
             /\ resp'.status = 200
             /\ IF p.route = "POST /api/usage"
                THEN /\ \E row \in usage_events' \ usage_events :
                           /\ usage_events' = usage_events \cup {row}
                           /\ row.app_id \in OwnerIds(p.req.b.app_slug)
                           /\ row.kind =
                                 (IF p.req.b.kind = Absent THEN "request"
                                  ELSE p.req.b.kind)
                           /\ row.ts = now
                     /\ deployments' = deployments
                ELSE /\ \E row \in deployments' \ deployments :
                           /\ deployments' = deployments \cup {row}
                           /\ row.app_id \in OwnerIds(p.req.b.app_slug)
                           /\ row.environment =
                                 (IF p.req.b.environment = Absent THEN "prod"
                                  ELSE p.req.b.environment)
                           /\ row.deployed_at = now
                     /\ usage_events' = usage_events]_vars

\* What the insert of POST /api/usage does against the schema: it names
\* error_message, the statement is rejected, no row is written and no JSON
\* answer is sent.
C11_UsageInsertRejected ==
    [][\A p \in pending :
          (StepInserts(p) /\ p.route = "POST /api/usage") =>
             /\ resp'.failed
             /\ ~resp'.json
             /\ usage_events' = usage_events
             /\ seq' = seq]_vars

\* The insert of POST /api/usage was attempted for a registered application
C11_UsageInsertWitness ==
    /\ resp.route = "POST /api/usage"
    /\ resp.failed
    /\ resp.req.b.app_slug \in {a.slug : a \in apps}
    /\ requireToken(resp.req.hdr) = "next"
    /\ hits[resp.req.ip] <= usageMax

====
